---- MODULE Spec2Model ----
(***************************************************************************)
(* The flat-file record store of de-project-bibip (src/src/utils.py,       *)
(* src/src/models.py, src/src/bibip_car_service.py).                       *)
(*                                                                         *)
(* Files are modelled byte for byte.  A text (a Python str) and a string   *)
(* of bytes are run-length encoded: a sequence of <<char, count>> with     *)
(* count >= 1 and no two neighbouring runs of the same char, so that the   *)
(* 498 padding spaces of a line are one run.  The bytes of a file are kept *)
(* cut after every "\n" byte: a file is the sequence of these pieces, and  *)
(* its content is their concatenation.  Offsets, sizes and the slot        *)
(* arithmetic of the code are computed on the real byte counts.            *)
(***************************************************************************)
EXTENDS Integers, Sequences, FiniteSets, TLC

\* fs:      the directory of the service: path -> file (or no file)
\* linesep: os.linesep of the platform the service runs on
\* store:   the entity type whose store the run exercises
\* last:    the last call made: its name and the exception it raised
VARIABLES fs, linesep, store, last

vars == << fs, linesep, store, last >>

\* utils.py:7
LINE_SIZE == 500

(***************************************************************************)
(* Sequencing.  With(v, K) is K applied to the value of v (a local         *)
(* variable assigned once, or an argument evaluated before the call, as    *)
(* Python does); With2 takes two values.  Try(out, K) is the statement     *)
(* after a call: the call's exception if it raised one, else K applied to  *)
(* its outcome.                                                            *)
(***************************************************************************)
With(v, K(_)) == CHOOSE with_r \in { K(with_v) : with_v \in { v } } : TRUE

With2(v, w, K(_, _)) ==
    CHOOSE with_r \in { K(with_v, with_w) : with_v \in { v }, with_w \in { w } } :
        TRUE

Try(out, K(_)) ==
    CHOOSE try_r \in
        { IF try_out.err # "none" THEN try_out ELSE K(try_out) :
            try_out \in { out } } : TRUE

(***************************************************************************)
(* Python str primitives used by the code.                                 *)
(***************************************************************************)

\* c * n
Rep(c, n) == IF n > 0 THEN << <<c, n>> >> ELSE << >>

\* a + b
Cat(a, b) ==
    With2(a, b, LAMBDA x, y :
        IF x = << >> THEN y
        ELSE IF y = << >> THEN x
        ELSE IF x[Len(x)][1] = y[1][1]
             THEN SubSeq(x, 1, Len(x) - 1)
                  \o << <<y[1][1], x[Len(x)][2] + y[1][2]>> >>
                  \o Tail(y)
             ELSE x \o y)

\* a string literal, given as the tuple of its characters
RECURSIVE Str(_)
Str(cs) == IF cs = << >> THEN << >> ELSE Cat(Rep(cs[1], 1), Str(Tail(cs)))

\* the number of characters in the first n runs of s
RECURSIVE RunsLen(_, _)
RunsLen(s, n) == IF n = 0 THEN 0 ELSE RunsLen(s, n - 1) + s[n][2]

\* len(s)
StrLen(s) == RunsLen(s, Len(s))

\* s[:k]
RECURSIVE Take(_, _)
Take(s, k) ==
    IF k <= 0 \/ s = << >> THEN << >>
    ELSE IF s[1][2] <= k THEN << s[1] >> \o Take(Tail(s), k - s[1][2])
    ELSE << <<s[1][1], k>> >>

\* s[k:]
RECURSIVE Drop(_, _)
Drop(s, k) ==
    IF k <= 0 \/ s = << >> THEN s
    ELSE IF s[1][2] <= k THEN Drop(Tail(s), k - s[1][2])
    ELSE << <<s[1][1], s[1][2] - k>> >> \o Tail(s)

\* the index of the first run of s whose character is in cs,
\* Len(s) + 1 when there is none
First(s, cs) ==
    IF \E i \in 1..Len(s) : s[i][1] \in cs
    THEN CHOOSE i \in 1..Len(s) :
             s[i][1] \in cs /\ \A j \in 1..(i - 1) : s[j][1] \notin cs
    ELSE Len(s) + 1

\* what follows the first character of the run i of s
After(s, i) == Rep(s[i][1], s[i][2] - 1) \o SubSeq(s, i + 1, Len(s))

\* the characters of the model in code point order
Alphabet ==
    << "\n", "\r", " ", "#", ",", "-",
       "0", "1", "2", "3", "4", "5", "6", "7", "8", "9", ":",
       "A", "B", "C", "M", "S", "T",
       "a", "b", "d", "e", "i", "l", "o", "r", "s", "v", "y" >>

\* ord(c)
Ord(c) == CHOOSE i \in 1..Len(Alphabet) : Alphabet[i] = c

Digits == << "0", "1", "2", "3", "4", "5", "6", "7", "8", "9" >>

IsDigit(c) == \E i \in 1..10 : Digits[i] = c

DigitVal(c) == (CHOOSE i \in 1..10 : Digits[i] = c) - 1

Whitespace == { " ", "\n", "\r" }

\* a < b, as Python compares two str (by code point, a proper prefix first)
RECURSIVE StrLess(_, _)
StrLess(a, b) ==
    IF b = << >> THEN FALSE
    ELSE IF a = << >> THEN TRUE
    ELSE IF a[1][1] # b[1][1] THEN Ord(a[1][1]) < Ord(b[1][1])
    ELSE With(IF a[1][2] < b[1][2] THEN a[1][2] ELSE b[1][2], LAMBDA m :
             StrLess(Drop(a, m), Drop(b, m)))

\* s.lstrip()
LStrip(s) ==
    With(s, LAMBDA t :
        IF \A i \in 1..Len(t) : t[i][1] \in Whitespace THEN << >>
        ELSE SubSeq(t, CHOOSE i \in 1..Len(t) :
                           /\ t[i][1] \notin Whitespace
                           /\ \A j \in 1..(i - 1) : t[j][1] \in Whitespace,
                    Len(t)))

\* s.rstrip()
RStrip(s) ==
    With(s, LAMBDA t :
        IF \A i \in 1..Len(t) : t[i][1] \in Whitespace THEN << >>
        ELSE SubSeq(t, 1, CHOOSE i \in 1..Len(t) :
                              /\ t[i][1] \notin Whitespace
                              /\ \A j \in (i + 1)..Len(t) :
                                    t[j][1] \in Whitespace))

\* s.strip()
Strip(s) == RStrip(LStrip(s))

\* s.ljust(w)
LJust(s, w) == With(s, LAMBDA t : Cat(t, Rep(" ", w - StrLen(t))))

\* s.split(","): the list of the fields between the commas
RECURSIVE Split(_)
Split(s) ==
    With2(s, First(s, {","}), LAMBDA t, i :
        IF i > Len(t) THEN << t >>
        ELSE << SubSeq(t, 1, i - 1) >> \o Split(After(t, i)))

\* str(n) of an int n >= 0
RECURSIVE IntToStr(_)
IntToStr(n) ==
    IF n < 10 THEN Rep(Digits[n + 1], 1)
    ELSE Cat(IntToStr(n \div 10), Rep(Digits[(n % 10) + 1], 1))

\* whether int(s) succeeds (s is stripped first, as int() does)
IsIntStr(s) ==
    With(Strip(s), LAMBDA t :
        t # << >> /\ \A i \in 1..Len(t) : IsDigit(t[i][1]))

\* int(s)
RECURSIVE DigitsVal(_, _)
DigitsVal(t, acc) ==
    IF t = << >> THEN acc
    ELSE DigitsVal(Drop(t, 1), 10 * acc + DigitVal(t[1][1]))

StrToInt(s) == DigitsVal(Strip(s), 0)

(***************************************************************************)
(* Text-mode file I/O.  open(path, "a" / "r" / "r+") opens in text mode:    *)
(* write() replaces every "\n" by os.linesep, read() turns "\r\n" and a    *)
(* lone "\r" into "\n" (universal newlines).  os.linesep is "\n" on POSIX  *)
(* and "\r\n" on Windows; the code does not fix it, so it is a parameter   *)
(* of the run (the variable linesep below).                                *)
(***************************************************************************)
LF == Str(<< "\n" >>)

CRLF == Str(<< "\r", "\n" >>)

\* what file.write(t) puts on disk
RECURSIVE TextToBytes(_, _)
TextToBytes(t, sep) ==
    With2(t, First(t, {"\n"}), LAMBDA u, i :
        IF i > Len(u) THEN u
        ELSE Cat(Cat(SubSeq(u, 1, i - 1), sep), TextToBytes(After(u, i), sep)))

\* what file.read() returns for the bytes b
RECURSIVE BytesToText(_)
BytesToText(b) ==
    With2(b, First(b, {"\r"}), LAMBDA u, i :
        IF i > Len(u) THEN u
        ELSE Cat(Cat(SubSeq(u, 1, i - 1),
                     Rep("\n", IF i < Len(u) /\ u[i + 1][1] = "\n"
                               THEN u[i][2] - 1 ELSE u[i][2])),
                 BytesToText(SubSeq(u, i + 1, Len(u)))))

\* s cut after every "\n"
RECURSIVE Lines(_)
Lines(s) ==
    With2(s, First(s, {"\n"}), LAMBDA u, i :
        IF u = << >> THEN << >>
        ELSE IF i > Len(u) THEN << u >>
        ELSE << Cat(SubSeq(u, 1, i - 1), Rep("\n", 1)) >> \o Lines(After(u, i)))

\* file.readline() on the text t: up to and including the first "\n"
ReadLine(t) == With(Lines(t), LAMBDA ls : IF ls = << >> THEN << >> ELSE ls[1])

\* file.readlines() / iterating the file
ReadLines(t) == Lines(t)

\* the bytes b cut after every "\n" byte
Pieces(b) == Lines(b)

\* whether the piece ends with a "\n" byte
Terminated(piece) == piece # << >> /\ piece[Len(piece)][1] = "\n"

\* the pieces d followed by the pieces e
JoinPieces(d, e) ==
    With2(d, e, LAMBDA x, y :
        IF x = << >> THEN y
        ELSE IF y = << >> THEN x
        ELSE IF Terminated(x[Len(x)]) THEN x \o y
        ELSE SubSeq(x, 1, Len(x) - 1) \o << Cat(x[Len(x)], y[1]) >> \o Tail(y))

\* the offset at which every piece of d ends
RECURSIVE Ends(_)
Ends(d) ==
    IF d = << >> THEN << >>
    ELSE With(Ends(SubSeq(d, 1, Len(d) - 1)), LAMBDA e :
             Append(e, (IF e = << >> THEN 0 ELSE e[Len(e)])
                       + StrLen(d[Len(d)])))

\* the offset at which the piece i starts, and the size of the file,
\* given the ends e of its pieces
Start(e, i) == IF i = 1 THEN 0 ELSE e[i - 1]

Total(e) == IF e = << >> THEN 0 ELSE e[Len(e)]

\* os.path.getsize
FileSize(d) == Total(Ends(d))

\* the piece that holds the byte at offset (offset < Total(e))
PieceAt(e, offset) ==
    CHOOSE i \in 1..Len(e) : Start(e, i) <= offset /\ offset < e[i]

\* the bytes w written at the end of the file
AppendBytes(d, w) == JoinPieces(d, Pieces(w))

\* file.seek(offset); file.write(...) of the bytes w, without truncation
WriteBytesAt(d, offset, w) ==
    With2(Ends(d), offset + StrLen(w), LAMBDA e, end :
        IF offset >= Total(e)
        THEN AppendBytes(d, Cat(Rep("NUL", offset - Total(e)), w))
        ELSE With2(PieceAt(e, offset),
                   IF end < Total(e) THEN PieceAt(e, end) ELSE Len(d),
                   LAMBDA i, j :
                 JoinPieces(
                     JoinPieces(
                         SubSeq(d, 1, i - 1),
                         Pieces(Cat(Cat(Take(d[i], offset - Start(e, i)), w),
                                    IF end < Total(e)
                                    THEN Drop(d[j], end - Start(e, j))
                                    ELSE << >>))),
                     SubSeq(d, j + 1, Len(d)))))

\* file.seek(offset); file.readline()
ReadLineAt(d, offset) ==
    With(Ends(d), LAMBDA e :
        IF offset >= Total(e) THEN << >>
        ELSE With(PieceAt(e, offset), LAMBDA i :
                 ReadLine(BytesToText(Drop(d[i], offset - Start(e, i))))))

\* file.readlines() / iterating the file, from offset 0
RECURSIVE ReadAllLines(_)
ReadAllLines(d) ==
    IF d = << >> THEN << >>
    ELSE ReadLines(BytesToText(d[1])) \o ReadAllLines(Tail(d))

\* a path that is no file, and a file with the pieces of its bytes
NoFile == [isfile |-> FALSE, data |-> << >>]

File(b) == [isfile |-> TRUE, data |-> b]

\* the outcome of a call: the file system it leaves, the exception it raised
\* ("none" when it returned) and the value it returned
NoneValue == [cls |-> "None"]

Return(f, v) == [fs |-> f, err |-> "none", ret |-> v]

Raise(f, e) == [fs |-> f, err |-> e, ret |-> NoneValue]

\* p.plural(cls.__name__).lower()
Plural(cls) ==
    CASE cls = "Car" -> "cars"
      [] cls = "Model" -> "models"
      [] cls = "Sale" -> "sales"

ModelDbPath(cls) == Plural(cls) \o ".txt"

IndexDbPath(cls) == Plural(cls) \o "_index.txt"

Paths == { ModelDbPath(c) : c \in {"Car", "Model", "Sale"} }
         \cup { IndexDbPath(c) : c \in {"Car", "Model", "Sale"} }

\* write_tracker rounding the slot count up: the fault that
\* IndexedLinesAreWritten excludes
TrackedRoundedUp(new_size) == (new_size + LINE_SIZE - 1) \div LINE_SIZE

\* new_size // LINE_SIZE of write_tracker
Tracked(new_size) == new_size \div LINE_SIZE

\* @write_tracker append(prepared_data, file_path)
AppendFile(f, prepared_data, file_path) ==
    With(IF f[file_path].isfile THEN f[file_path].data ELSE << >>, LAMBDA old :
    With(AppendBytes(old, TextToBytes(prepared_data, linesep)), LAMBDA new :
        IF FileSize(new) = FileSize(old)
        THEN Raise([f EXCEPT ![file_path] = File(new)], "RuntimeError")
        ELSE Return([f EXCEPT ![file_path] = File(new)],
                    Tracked(FileSize(new)))))

\* get_prepared_data(data)
GetPreparedData(data) == Cat(LJust(data, LINE_SIZE - 2), LF)

(***************************************************************************)
(* models.py: the entities and their codecs.  A str field holds a text, an *)
(* int or Decimal field a natural number, a datetime field the day d of    *)
(* 1111-11-1d 11:11:11.  is_deleted is a field of every entity             *)
(* (BaseModel) and is not part of any __str__.                             *)
(***************************************************************************)
Classes == {"Car", "Model", "Sale"}

Available == Str(<< "a", "v", "a", "i", "l", "a", "b", "l", "e" >>)

Reserve == Str(<< "r", "e", "s", "e", "r", "v", "e" >>)

Sold == Str(<< "s", "o", "l", "d" >>)

Delivery == Str(<< "d", "e", "l", "i", "v", "e", "r", "y" >>)

\* class CarStatus(StrEnum)
CarStatus == { Available, Reserve, Sold, Delivery }

Days == 1..9

YearMonth == Str(<< "1", "1", "1", "1", "-", "1", "1", "-", "1" >>)

TimeOfDay == Str(<< "1", "1", ":", "1", "1", ":", "1", "1" >>)

\* datetime.isoformat(sep): date, separator, time
IsoFormat(d, sep) ==
    Cat(Cat(YearMonth, IntToStr(d)), Cat(Rep(sep, 1), TimeOfDay))

\* the strings datetime.fromisoformat accepts, each with its value
IsoStrings ==
    { << IsoFormat(d, sep), d >> : d \in Days, sep \in {"T", " "} }

\* whether datetime.fromisoformat(s) succeeds, and its value
IsIsoStr(s) == \E p \in IsoStrings : p[1] = s

FromIsoFormat(s) == (CHOOSE p \in IsoStrings : p[1] = s)[2]

\* whether Decimal(s) succeeds
IsDecimalStr(s) == IsIntStr(s)

\* Car.__str__, Model.__str__, Sale.__str__
Comma == Rep(",", 1)

RECURSIVE Join(_)
Join(parts) ==
    IF Len(parts) = 1 THEN parts[1]
    ELSE Cat(Cat(parts[1], Comma), Join(Tail(parts)))

CarToStr(e) ==
    Join(<< e.vin, IntToStr(e.model), IntToStr(e.price),
            IsoFormat(e.date_start, "T"), e.status >>)

ModelToStr(e) == Join(<< IntToStr(e.id), e.name, e.brand >>)

SaleToStr(e) ==
    Join(<< e.sales_number, e.car_vin, IsoFormat(e.sales_date, " "),
            IntToStr(e.cost) >>)

ToStr(e) ==
    CASE e.cls = "Car" -> CarToStr(e)
      [] e.cls = "Model" -> ModelToStr(e)
      [] e.cls = "Sale" -> SaleToStr(e)

\* Car.index, Model.index, Sale.index
IndexOf(e) ==
    CASE e.cls = "Car" -> e.vin
      [] e.cls = "Model" -> IntToStr(e.id)
      [] e.cls = "Sale" -> e.car_vin

\* the field that index() reads
KeyField(c) ==
    CASE c = "Car" -> "vin"
      [] c = "Model" -> "id"
      [] c = "Sale" -> "car_vin"

\* Car.from_str, Model.from_str, Sale.from_str: [err, ret]
Parsed(e) == [err |-> "none", ret |-> e]

ParseError(kind) == [err |-> kind, ret |-> NoneValue]

CarFromStr(data) ==
    With(Split(Strip(data)), LAMBDA parts :
        IF Len(parts) # 5 THEN ParseError("ValueError")
        ELSE IF ~IsDecimalStr(parts[3]) THEN ParseError("InvalidOperation")
        ELSE IF ~IsIsoStr(parts[4]) THEN ParseError("ValueError")
        ELSE IF parts[5] \notin CarStatus THEN ParseError("ValueError")
        ELSE IF ~IsIntStr(parts[2]) THEN ParseError("ValidationError")
        ELSE Parsed([cls |-> "Car", vin |-> parts[1],
                     model |-> StrToInt(parts[2]), price |-> StrToInt(parts[3]),
                     date_start |-> FromIsoFormat(parts[4]),
                     status |-> parts[5], is_deleted |-> FALSE]))

ModelFromStr(data) ==
    With(Split(Strip(data)), LAMBDA parts :
        IF Len(parts) # 3 THEN ParseError("ValueError")
        ELSE IF ~IsIntStr(parts[1]) THEN ParseError("ValueError")
        ELSE Parsed([cls |-> "Model", id |-> StrToInt(parts[1]),
                     name |-> parts[2], brand |-> parts[3],
                     is_deleted |-> FALSE]))

SaleFromStr(data) ==
    With(Split(Strip(data)), LAMBDA parts :
        IF Len(parts) # 4 THEN ParseError("ValueError")
        ELSE IF ~IsIsoStr(parts[3]) THEN ParseError("ValueError")
        ELSE IF ~IsDecimalStr(parts[4]) THEN ParseError("InvalidOperation")
        ELSE Parsed([cls |-> "Sale", sales_number |-> parts[1],
                     car_vin |-> parts[2],
                     sales_date |-> FromIsoFormat(parts[3]),
                     cost |-> StrToInt(parts[4]), is_deleted |-> FALSE]))

FromStr(c, data) ==
    CASE c = "Car" -> CarFromStr(data)
      [] c = "Model" -> ModelFromStr(data)
      [] c = "Sale" -> SaleFromStr(data)

\* instance.model_copy(update=updated_parts)
ModelCopy(e, updated_parts) ==
    [f \in DOMAIN e |->
        IF f \in DOMAIN updated_parts THEN updated_parts[f] ELSE e[f]]

(***************************************************************************)
(* utils.py: the helpers and BaseService.  Every method is an operator     *)
(* from the file system f it finds to an outcome [fs, err, ret]; what a    *)
(* method wrote before it raised stays written.                            *)
(***************************************************************************)

\* a Python dict, in insertion order: a sequence of <<key, value>>
DictHas(d, k) == \E i \in 1..Len(d) : d[i][1] = k

DictGet(d, k) == d[CHOOSE i \in 1..Len(d) : d[i][1] = k][2]

\* d[k] = v
DictSet(d, k, v) ==
    IF DictHas(d, k)
    THEN [i \in 1..Len(d) |-> IF d[i][1] = k THEN << k, v >> ELSE d[i]]
    ELSE Append(d, << k, v >>)

\* d.pop(k)
DictPop(d, k) == SelectSeq(d, LAMBDA kv : kv[1] # k)

RECURSIVE DictOf(_, _)
DictOf(data, d) ==
    IF data = << >> THEN d
    ELSE With(Split(data[1]), LAMBDA item :
             DictOf(Tail(data), DictSet(d, item[1], item[2])))

\* data_to_dict(data): [err, ret]
DataToDict(data) ==
    IF data = << >> THEN ParseError("ValueError")
    ELSE IF \E i \in 1..Len(data) : Len(Split(data[i])) # 2
         THEN ParseError("ValueError")
         ELSE Parsed(DictOf(data, << >>))

\* sorted(data, key=lambda x: x.split(",")[0]): a stable sort
SortKey(x) == Split(x)[1]

\* the insertion that puts x before the lines of its key, which sorts but
\* not stably: the fault that SaveSortsIndex excludes
RECURSIVE InsertSortedFirst(_, _)
InsertSortedFirst(sorted, x) ==
    IF sorted = << >> THEN << x >>
    ELSE IF ~StrLess(SortKey(sorted[Len(sorted)]), SortKey(x))
         THEN Append(InsertSortedFirst(SubSeq(sorted, 1, Len(sorted) - 1), x),
                     sorted[Len(sorted)])
         ELSE Append(sorted, x)

RECURSIVE InsertSorted(_, _)
InsertSorted(sorted, x) ==
    IF sorted = << >> THEN << x >>
    ELSE IF StrLess(SortKey(x), SortKey(sorted[Len(sorted)]))
         THEN Append(InsertSorted(SubSeq(sorted, 1, Len(sorted) - 1), x),
                     sorted[Len(sorted)])
         ELSE Append(sorted, x)

RECURSIVE Sorted(_, _)
Sorted(data, acc) ==
    IF data = << >> THEN acc
    ELSE Sorted(Tail(data), InsertSorted(acc, data[1]))

\* sort_data(data): [err, ret]
SortData(data) ==
    IF data = << >> THEN ParseError("ValueError")
    ELSE Parsed(Sorted(data, << >>))

\* "".join(lines)
RECURSIVE Concat(_)
Concat(lines) ==
    IF lines = << >> THEN << >> ELSE Cat(lines[1], Concat(Tail(lines)))

\* the lines of the file at path, as file.readlines() returns them
FileLines(f, path) == With(f[path].data, ReadAllLines)

\* BaseService.refresh(instance)
Refresh(f, instance) ==
    IF ~f[IndexDbPath(instance.cls)].isfile THEN Raise(f, "RuntimeError")
    ELSE With(SortData(FileLines(f, IndexDbPath(instance.cls))),
              LAMBDA sorted_data :
        IF sorted_data.err # "none" THEN Raise(f, "RuntimeError")
        ELSE Return(
                [f EXCEPT ![IndexDbPath(instance.cls)] =
                    File(WriteBytesAt(f[IndexDbPath(instance.cls)].data, 0,
                             TextToBytes(Concat(sorted_data.ret), linesep)))],
                Len(sorted_data.ret)))

\* BaseService._handle_append_result(result, instance, action)
HandleAppendResult(appended, instance, action) ==
    Try(appended, LAMBDA result :
        IF result.ret # 0
        THEN IF action = "index"
             THEN Try(Refresh(result.fs, instance), LAMBDA refreshed :
                      Return(refreshed.fs, result.ret))
             ELSE result
        ELSE Raise(result.fs, "IOError"))

\* BaseService.index(instance, line_in_db)
Index(f, instance, line_in_db) ==
    HandleAppendResult(
        AppendFile(f,
            GetPreparedData(
                Cat(Cat(IndexOf(instance), Comma), IntToStr(line_in_db))),
            IndexDbPath(instance.cls)),
        instance, "index")

\* BaseService.save(instance)
Save(f, instance) ==
    Try(HandleAppendResult(
            AppendFile(f, GetPreparedData(ToStr(instance)),
                       ModelDbPath(instance.cls)),
            instance, "save"),
        LAMBDA id :
    Try(Index(id.fs, instance, id.ret), LAMBDA indexed :
        Return(indexed.fs, instance)))

\* get_num_line without its KeyError, a key that is not indexed taken for
\* line 1: the fault that AbsentKeyIsNotFound excludes
GetNumLineOrFirst(f, index, cls) ==
    IF ~f[IndexDbPath(cls)].isfile THEN Raise(f, "FileNotFoundError")
    ELSE With(DataToDict(FileLines(f, IndexDbPath(cls))),
              LAMBDA prepared_data :
        IF prepared_data.err # "none" THEN Raise(f, prepared_data.err)
        ELSE IF ~DictHas(prepared_data.ret, index) THEN Return(f, 1)
        ELSE With(DictGet(prepared_data.ret, index), LAMBDA num_line :
            IF ~IsIntStr(num_line) THEN Raise(f, "ValueError")
            ELSE Return(f, StrToInt(num_line))))

\* BaseService.get_num_line(index, cls)
GetNumLine(f, index, cls) ==
    IF ~f[IndexDbPath(cls)].isfile THEN Raise(f, "FileNotFoundError")
    ELSE With(DataToDict(FileLines(f, IndexDbPath(cls))),
              LAMBDA prepared_data :
        IF prepared_data.err # "none" THEN Raise(f, prepared_data.err)
        ELSE IF ~DictHas(prepared_data.ret, index) THEN Raise(f, "KeyError")
        ELSE With(DictGet(prepared_data.ret, index), LAMBDA num_line :
            IF ~IsIntStr(num_line) THEN Raise(f, "ValueError")
            ELSE Return(f, StrToInt(num_line))))

\* BaseService.get_object_by_num_line(num_line, cls)
GetObjectByNumLine(f, num_line, cls) ==
    IF ~f[ModelDbPath(cls)].isfile THEN Raise(f, "FileNotFoundError")
    ELSE With(FromStr(cls,
                  Strip(ReadLineAt(f[ModelDbPath(cls)].data,
                            IF num_line > 1 THEN (num_line - 1) * LINE_SIZE
                            ELSE 0))),
              LAMBDA parsed :
        IF parsed.err # "none" THEN Raise(f, parsed.err)
        ELSE Return(f, parsed.ret))

\* BaseService._overwrite_line(file_path, num_line, new_instance)
OverwriteLine(f, file_path, num_line, new_instance) ==
    IF ~f[file_path].isfile THEN Raise(f, "FileNotFoundError")
    ELSE IF num_line < 1 THEN Raise(f, "ValueError")
    ELSE Return([f EXCEPT ![file_path] =
                    File(WriteBytesAt(f[file_path].data,
                             (num_line - 1) * LINE_SIZE,
                             TextToBytes(GetPreparedData(ToStr(new_instance)),
                                         linesep)))],
                NoneValue)

\* the text update_index writes: every entry as f"{k},{v}"
RECURSIVE DictText(_)
DictText(d) ==
    IF d = << >> THEN << >>
    ELSE Cat(Cat(Cat(d[1][1], Comma), d[1][2]), DictText(Tail(d)))

\* data[new_index] = data.pop(old_index)
Rekeyed(data, old_index, new_index) ==
    IF DictHas(data, old_index)
    THEN DictSet(DictPop(data, old_index), new_index,
                 DictGet(data, old_index))
    ELSE data

\* BaseService.update_index(old_index, new_index, cls)
UpdateIndex(f, old_index, new_index, cls) ==
    IF ~f[IndexDbPath(cls)].isfile THEN Raise(f, "FileNotFoundError")
    ELSE With(DataToDict(FileLines(f, IndexDbPath(cls))), LAMBDA data :
        IF data.err # "none" THEN Raise(f, data.err)
        ELSE Return([f EXCEPT ![IndexDbPath(cls)] =
                        File(Pieces(TextToBytes(
                                 DictText(Rekeyed(data.ret, old_index,
                                                  new_index)),
                                 linesep)))],
                    NoneValue))

\* BaseService.update(instance_or_index, updated_parts, cls);
\* instance_or_index is [instance |-> e] or [index |-> k]
Update(f, instance_or_index, updated_parts, cls) ==
    With(IF "instance" \in DOMAIN instance_or_index
         THEN IndexOf(instance_or_index.instance)
         ELSE instance_or_index.index,
         LAMBDA index :
    Try(GetNumLine(f, index, cls), LAMBDA num_line :
    Try(IF "instance" \in DOMAIN instance_or_index
        THEN Return(f, instance_or_index.instance)
        ELSE GetObjectByNumLine(f, num_line.ret, cls),
        LAMBDA instance :
    With(ModelCopy(instance.ret, updated_parts), LAMBDA updated_instance :
    Try(OverwriteLine(f, ModelDbPath(cls), num_line.ret, updated_instance),
        LAMBDA written :
        IF IndexOf(updated_instance) # index
        THEN Try(UpdateIndex(written.fs, index, IndexOf(updated_instance),
                             cls),
                 LAMBDA reindexed : Return(reindexed.fs, updated_instance))
        ELSE Return(written.fs, updated_instance))))))

\* get without its except clause: the fault that GetNeverFails excludes
GetUncaught(f, index, cls) ==
    Try(Try(GetNumLine(f, index, cls), LAMBDA num_line :
            GetObjectByNumLine(f, num_line.ret, cls)),
        LAMBDA instance :
        IF instance.ret.is_deleted THEN Return(f, NoneValue)
        ELSE Return(f, instance.ret))

\* BaseService.get(index, cls)
Get(f, index, cls) ==
    With(Try(GetNumLine(f, index, cls), LAMBDA num_line :
             GetObjectByNumLine(f, num_line.ret, cls)),
         LAMBDA instance :
        IF instance.err # "none" THEN Return(f, NoneValue)
        ELSE IF instance.ret.is_deleted THEN Return(f, NoneValue)
        ELSE Return(f, instance.ret))

\* the first exception of a list of outcomes, "none" when there is none
RECURSIVE FirstError(_)
FirstError(outs) ==
    IF outs = << >> THEN "none"
    ELSE IF outs[1].err # "none" THEN outs[1].err
    ELSE FirstError(Tail(outs))

\* BaseService.get_list(cls)
GetList(f, cls) ==
    IF ~f[ModelDbPath(cls)].isfile THEN Raise(f, "FileNotFoundError")
    ELSE With(FileLines(f, ModelDbPath(cls)), LAMBDA lines :
         With([i \in 1..Len(lines) |-> FromStr(cls, Strip(lines[i]))],
              LAMBDA parsed :
            IF FirstError(parsed) # "none" THEN Raise(f, FirstError(parsed))
            ELSE Return(f, [i \in 1..Len(parsed) |-> parsed[i].ret])))

\* BaseService.delete(index, cls)
Delete(f, index, cls) ==
    Update(f, [index |-> index], [is_deleted |-> TRUE], cls)

(***************************************************************************)
(* The calls a client makes, and the values it may pass.  Every field      *)
(* value is short: a serialized record fits the LINE_SIZE - 2 characters   *)
(* of a line.                                                              *)
(***************************************************************************)

\* the most slots of LINE_SIZE bytes a record file grows to
MaxSlots == 2

VinA == Str(<< "A" >>)

VinB == Str(<< "B" >>)

Vins == { VinA, VinB }

Cars ==
    [cls : {"Car"}, vin : Vins, model : {1}, price : {5}, date_start : {1},
     status : {Available}, is_deleted : BOOLEAN]

Models ==
    [cls : {"Model"}, id : {1, 2}, name : {Str(<< "M" >>)},
     brand : {Str(<< "T" >>)}, is_deleted : BOOLEAN]

Sales ==
    [cls : {"Sale"}, sales_number : {Str(<< "S", "#", "A" >>)},
     car_vin : Vins, sales_date : {1}, cost : {5}, is_deleted : BOOLEAN]

Instances(c) ==
    CASE c = "Car" -> Cars
      [] c = "Model" -> Models
      [] c = "Sale" -> Sales

\* the instances a client passes to update
Fresh(c) == { e \in Instances(c) : ~e.is_deleted }

\* the keys a client looks up
Keys(c) == { IndexOf(e) : e \in Instances(c) }

\* the updated_parts a client passes: none, a new key, a new value
Rekey(c, e) ==
    CASE c = "Car" -> [vin |-> e.vin]
      [] c = "Model" -> [id |-> e.id]
      [] c = "Sale" -> [car_vin |-> e.car_vin]

Retouch(c) ==
    CASE c = "Car" -> [status |-> Sold]
      [] c = "Model" -> [name |-> Str(<< "S" >>)]
      [] c = "Sale" -> [cost |-> 6]

UpdatedParts(c) ==
    { << >>, Retouch(c) } \cup { Rekey(c, e) : e \in Instances(c) }

\* the record of a call: its name and the exception it raised
Called(op, out) == [op |-> op, err |-> out.err]

\* the slots of LINE_SIZE bytes that the file at path fills
Slots(f, path) == FileSize(f[path].data) \div LINE_SIZE

Init ==
    /\ fs = [p \in Paths |-> NoFile]
    /\ linesep \in { LF, CRLF }
    /\ store \in Classes
    /\ last = Called("init", Return(fs, NoneValue))

DoSave(e) ==
    /\ Slots(fs, ModelDbPath(store)) < MaxSlots
    /\ LET out == Save(fs, e)
       IN  /\ fs' = out.fs
           /\ last' = Called("save", out)
    /\ UNCHANGED << linesep, store >>

DoUpdate(k, parts) ==
    /\ LET out == Update(fs, [index |-> k], parts, store)
       IN  /\ fs' = out.fs
           /\ last' = Called("update", out)
    /\ UNCHANGED << linesep, store >>

DoUpdateInstance(e, parts) ==
    /\ LET out == Update(fs, [instance |-> e], parts, store)
       IN  /\ fs' = out.fs
           /\ last' = Called("update", out)
    /\ UNCHANGED << linesep, store >>

DoDelete(k) ==
    /\ LET out == Delete(fs, k, store)
       IN  /\ fs' = out.fs
           /\ last' = Called("delete", out)
    /\ UNCHANGED << linesep, store >>

DoGet(k) ==
    /\ LET out == Get(fs, k, store)
       IN  /\ fs' = out.fs
           /\ last' = Called("get", out)
    /\ UNCHANGED << linesep, store >>

DoGetList ==
    /\ LET out == GetList(fs, store)
       IN  /\ fs' = out.fs
           /\ last' = Called("get_list", out)
    /\ UNCHANGED << linesep, store >>

Next ==
    \/ \E e \in Instances(store) : DoSave(e)
    \/ \E k \in Keys(store) : \E parts \in UpdatedParts(store) :
          DoUpdate(k, parts)
    \/ \E e \in Fresh(store) : \E parts \in UpdatedParts(store) :
          DoUpdateInstance(e, parts)
    \/ \E k \in Keys(store) : DoDelete(k)
    \/ \E k \in Keys(store) : DoGet(k)
    \/ DoGetList

Spec == Init /\ [][Next]_vars

(***************************************************************************)
(* What the two files of the store hold, as the code reads them.           *)
(***************************************************************************)

\* the lines of the record file of cls (none when there is no file)
RecordLines(f, cls) ==
    IF f[ModelDbPath(cls)].isfile THEN FileLines(f, ModelDbPath(cls))
    ELSE << >>

\* the lines of the index file of cls, each split at its commas
IndexEntries(f, cls) ==
    IF f[IndexDbPath(cls)].isfile
    THEN With(FileLines(f, IndexDbPath(cls)), LAMBDA lines :
             [i \in 1..Len(lines) |-> Split(lines[i])])
    ELSE << >>

\* the mapping get_num_line loads from the index file: the set of
\* << key, line number >> (empty when the file is missing or unreadable)
LoadedIndex(f, cls) ==
    IF ~f[IndexDbPath(cls)].isfile THEN { }
    ELSE With(DataToDict(FileLines(f, IndexDbPath(cls))), LAMBDA d :
        IF d.err # "none" THEN { }
        ELSE { << d.ret[i][1], StrToInt(d.ret[i][2]) >> :
                 i \in { j \in 1..Len(d.ret) : IsIntStr(d.ret[j][2]) } })

\* the mapping a scan of the record file builds, line by line: the key of
\* every record that parses, bound to the number of the last line with it
ScannedIndex(f, cls) ==
    With([i \in 1..Len(RecordLines(f, cls)) |->
             FromStr(cls, Strip(RecordLines(f, cls)[i]))],
         LAMBDA parsed :
        { << IndexOf(parsed[i].ret), i >> :
            i \in { j \in 1..Len(parsed) :
                      /\ parsed[j].err = "none"
                      /\ \A h \in (j + 1)..Len(parsed) :
                            \/ parsed[h].err # "none"
                            \/ IndexOf(parsed[h].ret) # IndexOf(parsed[j].ret) } })

\* what get does before it looks at is_deleted: the line number of the
\* index, then the record at that line
Lookup(f, index, cls) ==
    Try(GetNumLine(f, index, cls), LAMBDA num_line :
        GetObjectByNumLine(f, num_line.ret, cls))

\* the errors that say a key, or the index that should hold it, is not there
NotFoundErrors == { "KeyError", "FileNotFoundError" }

(***************************************************************************)
(* C1.  Soft delete.                                                       *)
(***************************************************************************)

\* C1: in every state and for every key k, when delete(k) returns, the
\* get(k) that follows it returns None (the record is hidden from lookup)
DeletedIsNotFound ==
    \A k \in Keys(store) :
        With(Delete(fs, k, store), LAMBDA deleted :
            deleted.err = "none" =>
                Get(deleted.fs, k, store).ret = NoneValue)

(***************************************************************************)
(* C2.  Saves with distinct keys.                                          *)
(***************************************************************************)

\* get_list returns exactly the entities es, and get of each key its entity
ListedAndFound(f, es) ==
    /\ GetList(f, store).err = "none"
    /\ GetList(f, store).ret = es
    /\ \A i \in 1..Len(es) : Get(f, IndexOf(es[i]), store).ret = es[i]

\* C2: a save of e into the empty store returns, and then get_list is
\* << e >> and get finds e; after a further save of e2 under another key
\* get_list is << e, e2 >> and get finds both
SavedAreListedAndFound ==
    [][\A e \in Fresh(store) :
          (fs = [p \in Paths |-> NoFile] /\ DoSave(e)) =>
              /\ last'.err = "none"
              /\ ListedAndFound(fs', << e >>)
              /\ \A e2 \in Fresh(store) :
                    IndexOf(e2) # IndexOf(e) =>
                        With(Save(fs', e2), LAMBDA saved :
                            /\ saved.err = "none"
                            /\ ListedAndFound(saved.fs, << e, e2 >>))]_vars

(***************************************************************************)
(* C3.  Rename.                                                            *)
(***************************************************************************)

\* C3: for a key k the index binds to line n and a key k2 the index does
\* not hold, update(k, {key field: k2}) returns, and then the index binds
\* k2 to n, get(k2) is the record get(k) returned before with its key
\* changed to k2, and get(k) is None
RenameKeepsLine ==
    \A k \in Keys(store) : \A e \in Instances(store) :
        With2(GetNumLine(fs, k, store), GetNumLine(fs, IndexOf(e), store),
              LAMBDA n, n2 :
            (IndexOf(e) # k /\ n.err = "none" /\ n2.err = "KeyError") =>
                With(Update(fs, [index |-> k], Rekey(store, e), store),
                     LAMBDA updated :
                    /\ updated.err = "none"
                    /\ GetNumLine(updated.fs, IndexOf(e), store) =
                           Return(updated.fs, n.ret)
                    /\ Get(updated.fs, IndexOf(e), store).ret =
                           ModelCopy(Get(fs, k, store).ret, Rekey(store, e))
                    /\ Get(updated.fs, k, store).ret = NoneValue))

(***************************************************************************)
(* C4.  Line numbers of the index.                                         *)
(***************************************************************************)

\* C4: every line of the index file is a key and a line number n with
\* 1 <= n <= the slots of LINE_SIZE bytes written to the record file
IndexedLinesAreWritten ==
    \A i \in 1..Len(IndexEntries(fs, store)) :
        With(IndexEntries(fs, store)[i], LAMBDA item :
            /\ Len(item) = 2
            /\ IsIntStr(item[2])
            /\ 1 <= StrToInt(item[2])
            /\ StrToInt(item[2]) <= Slots(fs, ModelDbPath(store)))

\* C4 witness: a save has returned and the index holds the line number of
\* the last slot written, which is not the first
LastSlotIndexed ==
    /\ last.op = "save"
    /\ last.err = "none"
    /\ Slots(fs, ModelDbPath(store)) >= 2
    /\ \E i \in 1..Len(IndexEntries(fs, store)) :
          StrToInt(IndexEntries(fs, store)[i][2]) =
              Slots(fs, ModelDbPath(store))

(***************************************************************************)
(* C5.  Keys of the index.                                                 *)
(***************************************************************************)

\* C5: no two lines of the index file carry the same key
IndexKeysAreUnique ==
    \A i, j \in 1..Len(IndexEntries(fs, store)) :
        IndexEntries(fs, store)[i][1] = IndexEntries(fs, store)[j][1] =>
            i = j

(***************************************************************************)
(* C6.  The index as a view of the record file.                            *)
(***************************************************************************)

\* C6: the mapping loaded from the index file is the mapping a scan of the
\* record file builds, line by line, the last line of a key winning
IndexIsScanOfRecords ==
    LoadedIndex(fs, store) = ScannedIndex(fs, store)

(***************************************************************************)
(* C7.  Slots are appended, never reused.                                  *)
(***************************************************************************)

\* C7: a save that returns adds one line to the record file; no save
\* changes a line already there (line 1 stays the first record appended);
\* update, delete, get and get_list leave the number of lines alone; a
\* delete that returns leaves the index as it was
SlotsAreAppendOnly ==
    [][/\ (last'.op = "save" /\ last'.err = "none") =>
              Len(RecordLines(fs', store)) = Len(RecordLines(fs, store)) + 1
       /\ last'.op = "save" =>
              /\ Len(RecordLines(fs', store)) >= Len(RecordLines(fs, store))
              /\ SubSeq(RecordLines(fs', store), 1,
                        Len(RecordLines(fs, store))) = RecordLines(fs, store)
       /\ last'.op \in { "update", "delete", "get", "get_list" } =>
              Len(RecordLines(fs', store)) = Len(RecordLines(fs, store))
       /\ (last'.op = "delete" /\ last'.err = "none") =>
              LoadedIndex(fs', store) = LoadedIndex(fs, store)]_vars

(***************************************************************************)
(* C8.  Update and delete of a key that is not indexed.                    *)
(***************************************************************************)

\* C8: for a key k the index does not hold (or when there is no index
\* file), update(k, parts) and delete(k) raise KeyError (FileNotFoundError
\* when there is no index file) and leave every file as it was
AbsentKeyIsNotFound ==
    \A k \in Keys(store) :
        k \notin { kv[1] : kv \in LoadedIndex(fs, store) } =>
            /\ \A parts \in UpdatedParts(store) :
                  With(Update(fs, [index |-> k], parts, store), LAMBDA out :
                      out.err \in NotFoundErrors /\ out.fs = fs)
            /\ \A e \in Fresh(store) :
                  IndexOf(e) = k =>
                      With(Update(fs, [instance |-> e], << >>, store),
                           LAMBDA out :
                          out.err \in NotFoundErrors /\ out.fs = fs)
            /\ With(Delete(fs, k, store), LAMBDA out :
                   out.err \in NotFoundErrors /\ out.fs = fs)

\* C8 witness: a delete has raised KeyError: the store holds records, and
\* an index without the key
AbsentKeyDeleted ==
    /\ last.op = "delete"
    /\ last.err = "KeyError"
    /\ Len(RecordLines(fs, store)) >= 1
    /\ LoadedIndex(fs, store) # { }

(***************************************************************************)
(* C9.  get never fails.                                                   *)
(***************************************************************************)

\* the files get may find: those of f, and those of f with the index file
\* removed or emptied, or with the record file removed or emptied (every
\* line number of the index then points beyond its end)
Damaged(f, cls) ==
    { f,
      [f EXCEPT ![IndexDbPath(cls)] = NoFile],
      [f EXCEPT ![IndexDbPath(cls)] = File(<< >>)],
      [f EXCEPT ![ModelDbPath(cls)] = NoFile],
      [f EXCEPT ![ModelDbPath(cls)] = File(<< >>)] }

\* C9: whatever the files hold, get(k) raises nothing and changes no file,
\* and it returns None whenever the lookup of the line number or the read
\* of the record fails
GetNeverFails ==
    \A g \in Damaged(fs, store) : \A k \in Keys(store) :
        With(Get(g, k, store), LAMBDA out :
            /\ out.err = "none"
            /\ out.fs = g
            /\ Lookup(g, k, store).err # "none" => out.ret = NoneValue)

\* C9 witness: a get has returned in a state where the lookup of every key
\* fails, one of them on a record line that does not parse
GetOnBrokenLine ==
    /\ last.op = "get"
    /\ last.err = "none"
    /\ \A k \in Keys(store) : Lookup(fs, k, store).err # "none"
    /\ \E k \in Keys(store) :
          /\ GetNumLine(fs, k, store).err = "none"
          /\ Lookup(fs, k, store).err \notin NotFoundErrors

(***************************************************************************)
(* C10.  update with no changes.                                           *)
(***************************************************************************)

\* C10: for a key k the index binds to line n, update(k, {}) returns the
\* record get_object_by_num_line reads at n, leaves k at line n, every line
\* of the record file and the index mapping as they were, and a second
\* update(k, {}) returns the same and changes nothing either
EmptyUpdateChangesNothing ==
    \A k \in Keys(store) :
        With(GetNumLine(fs, k, store), LAMBDA n :
            n.err = "none" =>
                With(Update(fs, [index |-> k], << >>, store), LAMBDA once :
                    /\ once.err = "none"
                    /\ once.ret = GetObjectByNumLine(fs, n.ret, store).ret
                    /\ GetNumLine(once.fs, k, store) = Return(once.fs, n.ret)
                    /\ RecordLines(once.fs, store) = RecordLines(fs, store)
                    /\ LoadedIndex(once.fs, store) = LoadedIndex(fs, store)
                    /\ Update(once.fs, [index |-> k], << >>, store) = once))

(***************************************************************************)
(* bibip_car_service.py: CarService, the service over the three stores.    *)
(* An Optional field of a result holds NoneValue or Some(v).               *)
(***************************************************************************)

\* s.split(c): the list of the fields between the characters c
RECURSIVE SplitOn(_, _)
SplitOn(s, c) ==
    With2(s, First(s, {c}), LAMBDA t, i :
        IF i > Len(t) THEN << t >>
        ELSE << SubSeq(t, 1, i - 1) >> \o SplitOn(After(t, i), c))

\* a value of an Optional field that is not None
Some(v) == [value |-> v]

\* CarService.add_model(model)
AddModel(f, model) == Save(f, model)

\* CarService.add_car(car)
AddCar(f, car) == Save(f, car)

\* CarService.sell_car(sale)
SellCar(f, sale) ==
    Try(Save(f, sale), LAMBDA saved :
        Update(saved.fs, [index |-> sale.car_vin], [status |-> Sold], "Car"))

\* CarService.get_cars(status)
GetCars(f, status) ==
    Try(GetList(f, "Car"), LAMBDA cars :
        Return(f, SelectSeq(cars.ret, LAMBDA car : car.status = status)))

\* from_join with the name and the brand of the model taken for each other:
\* the fault that CarInfoIsJoin excludes
FromJoinSwapped(car, model, sale) ==
    IF car = NoneValue \/ model = NoneValue THEN NoneValue
    ELSE [cls |-> "CarFullInfo",
          vin |-> car.vin,
          car_model_name |-> model.brand,
          car_model_brand |-> model.name,
          price |-> car.price,
          date_start |-> car.date_start,
          status |-> car.status,
          sales_date |->
              IF sale # NoneValue THEN Some(sale.sales_date) ELSE NoneValue,
          sales_cost |->
              IF sale # NoneValue THEN Some(sale.cost) ELSE NoneValue,
          is_deleted |-> FALSE]

\* CarFullInfo.from_join(car, model, sale)
FromJoin(car, model, sale) ==
    IF car = NoneValue \/ model = NoneValue THEN NoneValue
    ELSE [cls |-> "CarFullInfo",
          vin |-> car.vin,
          car_model_name |-> model.name,
          car_model_brand |-> model.brand,
          price |-> car.price,
          date_start |-> car.date_start,
          status |-> car.status,
          sales_date |->
              IF sale # NoneValue THEN Some(sale.sales_date) ELSE NoneValue,
          sales_cost |->
              IF sale # NoneValue THEN Some(sale.cost) ELSE NoneValue,
          is_deleted |-> FALSE]

\* CarService.get_car_info(vin)
GetCarInfo(f, vin) ==
    With(Get(f, vin, "Car").ret, LAMBDA car :
        IF car = NoneValue THEN Return(f, NoneValue)
        ELSE With(Get(f, IntToStr(car.model), "Model").ret, LAMBDA model :
            IF model = NoneValue THEN Return(f, NoneValue)
            ELSE With(Get(f, vin, "Sale").ret, LAMBDA sale :
                     Return(f, FromJoin(car, model, sale)))))

\* CarService.update_vin(vin, new_vin)
UpdateVin(f, vin, new_vin) ==
    Update(f, [index |-> vin], [vin |-> new_vin], "Car")

\* CarService.revert_sale(sales_number)
RevertSale(f, sales_number) ==
    With(SplitOn(sales_number, "#"), LAMBDA parts :
        IF Len(parts) < 2 THEN Raise(f, "IndexError")
        ELSE With(Get(f, parts[2], "Sale").ret, LAMBDA sale :
            IF sale = NoneValue THEN Return(f, NoneValue)
            ELSE Try(Delete(f, parts[2], "Sale"), LAMBDA deleted :
                     Update(deleted.fs, [index |-> sale.car_vin],
                            [status |-> Available], "Car"))))

\* model_sales_counter[model] += 1 for every model of models, in turn: a
\* Counter, in insertion order, a sequence of << model, count >>
RECURSIVE Counted(_, _)
Counted(models, counter) ==
    IF models = << >> THEN counter
    ELSE Counted(Tail(models),
             DictSet(counter, models[1],
                 IF DictHas(counter, models[1])
                 THEN DictGet(counter, models[1]) + 1
                 ELSE 1))

\* sorted(counter.items(), key=count, reverse=True): stable, equal counts
\* stay in insertion order
RECURSIVE InsertByCount(_, _)
InsertByCount(sorted, x) ==
    IF sorted = << >> THEN << x >>
    ELSE IF x[2] > sorted[Len(sorted)][2]
         THEN Append(InsertByCount(SubSeq(sorted, 1, Len(sorted) - 1), x),
                     sorted[Len(sorted)])
         ELSE Append(sorted, x)

RECURSIVE SortedByCount(_, _)
SortedByCount(counter, acc) ==
    IF counter = << >> THEN acc
    ELSE SortedByCount(Tail(counter), InsertByCount(acc, counter[1]))

\* Counter.most_common(n)
MostCommon(counter, n) ==
    With(SortedByCount(counter, << >>), LAMBDA sorted :
        SubSeq(sorted, 1, IF Len(sorted) < n THEN Len(sorted) ELSE n))

\* CarService.top_models_by_sales()
TopModelsBySales(f) ==
    Try(GetList(f, "Sale"), LAMBDA sales :
    With([i \in 1..Len(sales.ret) |->
             Get(f, sales.ret[i].car_vin, "Car").ret],
         LAMBDA cars :
    IF \E i \in 1..Len(cars) : cars[i] = NoneValue
    THEN Raise(f, "AttributeError")
    ELSE With(MostCommon(
                  Counted([i \in 1..Len(cars) |-> cars[i].model], << >>), 3),
              LAMBDA top_models :
    With([i \in 1..Len(top_models) |->
             Get(f, IntToStr(top_models[i][1]), "Model").ret],
         LAMBDA models :
    IF \E i \in 1..Len(models) : models[i] = NoneValue
    THEN Raise(f, "AttributeError")
    ELSE Return(f, [i \in 1..Len(top_models) |->
                      [cls |-> "ModelSaleStats",
                       car_model_name |-> models[i].name,
                       brand |-> models[i].brand,
                       sales_number |-> top_models[i][2],
                       is_deleted |-> FALSE]])))))

(***************************************************************************)
(* The calls a client of CarService makes.                                 *)
(***************************************************************************)

\* the models, cars and sales a client passes: a sale of the car V has the
\* sales_number "S#V"
ServiceModels == { e \in Models : e.id = 1 /\ ~e.is_deleted }

ServiceCars == Fresh("Car")

SalesNumber(vin) == Cat(Str(<< "S", "#" >>), vin)

ServiceSales ==
    { [cls |-> "Sale", sales_number |-> SalesNumber(v), car_vin |-> v,
       sales_date |-> 1, cost |-> 5, is_deleted |-> FALSE] : v \in Vins }

\* the most slots of LINE_SIZE bytes the record files of the models and of
\* the sales grow to (that of the cars grows to MaxSlots)
MaxModelSlots == 1

MaxSaleSlots == 1

ServiceInit ==
    /\ fs = [p \in Paths |-> NoFile]
    /\ linesep \in { LF, CRLF }
    /\ store = "CarService"
    /\ last = Called("init", Return(fs, NoneValue))

DoAddModel(model) ==
    /\ Slots(fs, ModelDbPath("Model")) < MaxModelSlots
    /\ LET out == AddModel(fs, model)
       IN  /\ fs' = out.fs
           /\ last' = Called("add_model", out)
    /\ UNCHANGED << linesep, store >>

DoAddCar(car) ==
    /\ Slots(fs, ModelDbPath("Car")) < MaxSlots
    /\ LET out == AddCar(fs, car)
       IN  /\ fs' = out.fs
           /\ last' = Called("add_car", out)
    /\ UNCHANGED << linesep, store >>

DoSellCar(sale) ==
    /\ Slots(fs, ModelDbPath("Sale")) < MaxSaleSlots
    /\ LET out == SellCar(fs, sale)
       IN  /\ fs' = out.fs
           /\ last' = Called("sell_car", out)
    /\ UNCHANGED << linesep, store >>

DoGetCars(status) ==
    /\ LET out == GetCars(fs, status)
       IN  /\ fs' = out.fs
           /\ last' = Called("get_cars", out)
    /\ UNCHANGED << linesep, store >>

DoGetCarInfo(vin) ==
    /\ LET out == GetCarInfo(fs, vin)
       IN  /\ fs' = out.fs
           /\ last' = Called("get_car_info", out)
    /\ UNCHANGED << linesep, store >>

DoUpdateVin(vin, new_vin) ==
    /\ LET out == UpdateVin(fs, vin, new_vin)
       IN  /\ fs' = out.fs
           /\ last' = Called("update_vin", out)
    /\ UNCHANGED << linesep, store >>

DoRevertSale(sales_number) ==
    /\ LET out == RevertSale(fs, sales_number)
       IN  /\ fs' = out.fs
           /\ last' = Called("revert_sale", out)
    /\ UNCHANGED << linesep, store >>

DoTopModelsBySales ==
    /\ LET out == TopModelsBySales(fs)
       IN  /\ fs' = out.fs
           /\ last' = Called("top_models_by_sales", out)
    /\ UNCHANGED << linesep, store >>

ServiceNext ==
    \/ \E model \in ServiceModels : DoAddModel(model)
    \/ \E car \in ServiceCars : DoAddCar(car)
    \/ \E sale \in ServiceSales : DoSellCar(sale)
    \/ \E status \in { Available, Sold } : DoGetCars(status)
    \/ \E vin \in Vins : DoGetCarInfo(vin)
    \/ \E vin \in Vins : \E new_vin \in Vins \ { vin } :
          DoUpdateVin(vin, new_vin)
    \/ \E vin \in Vins : DoRevertSale(SalesNumber(vin))
    \/ DoTopModelsBySales

ServiceSpec == ServiceInit /\ [][ServiceNext]_vars

(***************************************************************************)
(* C11.  A reverted sale is hidden from lookup.                            *)
(***************************************************************************)

\* C11: when sell_car(sale of the car V) and then revert_sale("S#V") have
\* returned, get(V, Sale) returns None, and the info get_car_info(V)
\* returns has sales_date = None and sales_cost = None
RevertedSaleIsNotFound ==
    \A sale \in ServiceSales :
        With(SellCar(fs, sale), LAMBDA sold :
            sold.err = "none" =>
                With(RevertSale(sold.fs, sale.sales_number),
                     LAMBDA reverted :
                    reverted.err = "none" =>
                        /\ Get(reverted.fs, sale.car_vin, "Sale").ret =
                               NoneValue
                        /\ With(GetCarInfo(reverted.fs, sale.car_vin).ret,
                                LAMBDA info :
                               info # NoneValue =>
                                   /\ info.sales_date = NoneValue
                                   /\ info.sales_cost = NoneValue)))

(***************************************************************************)
(* C12.  The status of a car follows its sale.                             *)
(***************************************************************************)

\* the record file of the cars of g is that of f but for its line n
OnlyLineChanged(f, g, n) ==
    With2(RecordLines(f, "Car"), RecordLines(g, "Car"), LAMBDA old, new :
        /\ Len(new) = Len(old)
        /\ \A i \in 1..Len(old) : i # n => new[i] = old[i])

\* C12: for a car V the index binds to line n and get finds, sell_car(sale
\* of V) returns and then the car at line n is the same but for status =
\* sold; the revert_sale that follows returns and then it is the same but
\* for status = available; V stays at line n and no other line of the
\* record file of the cars changes
StatusFollowsSale ==
    \A sale \in ServiceSales :
        With2(GetNumLine(fs, sale.car_vin, "Car"),
              Get(fs, sale.car_vin, "Car").ret, LAMBDA n, car :
            (n.err = "none" /\ car # NoneValue) =>
                With(SellCar(fs, sale), LAMBDA sold :
                    /\ sold.err = "none"
                    /\ GetNumLine(sold.fs, sale.car_vin, "Car") =
                           Return(sold.fs, n.ret)
                    /\ Get(sold.fs, sale.car_vin, "Car").ret =
                           [car EXCEPT !.status = Sold]
                    /\ OnlyLineChanged(fs, sold.fs, n.ret)
                    /\ With(RevertSale(sold.fs, sale.sales_number),
                            LAMBDA reverted :
                           /\ reverted.err = "none"
                           /\ GetNumLine(reverted.fs, sale.car_vin, "Car") =
                                  Return(reverted.fs, n.ret)
                           /\ Get(reverted.fs, sale.car_vin, "Car").ret =
                                  [car EXCEPT !.status = Available]
                           /\ OnlyLineChanged(sold.fs, reverted.fs, n.ret))))

(***************************************************************************)
(* C13.  get_list and soft-deleted records.                                *)
(***************************************************************************)

\* C13: for a key k the index binds to line n, when delete(k) has returned
\* get_list returns one entity per line of the record file, the entity of
\* line n has the key k and is_deleted = TRUE, and the entity of every
\* other line is the one get_list returned before the delete
DeletedIsListed ==
    \A k \in Keys(store) :
        With2(GetNumLine(fs, k, store), Delete(fs, k, store),
              LAMBDA n, deleted :
            deleted.err = "none" =>
                With2(GetList(fs, store), GetList(deleted.fs, store),
                      LAMBDA before, listed :
                    /\ listed.err = "none"
                    /\ Len(listed.ret) = Len(RecordLines(deleted.fs, store))
                    /\ n.ret \in 1..Len(listed.ret)
                    /\ IndexOf(listed.ret[n.ret]) = k
                    /\ listed.ret[n.ret].is_deleted
                    /\ before.err = "none"
                    /\ \A i \in 1..Len(listed.ret) :
                          i # n.ret => listed.ret[i] = before.ret[i]))

(***************************************************************************)
(* C14.  get_car_info joins the car, its model and its sale.               *)
(***************************************************************************)

\* C14: get_car_info(vin) raises nothing and changes no file; it returns
\* None when get(vin, Car) or get(str(car.model), Model) returns None, and
\* else an info with the vin, price, date_start and status of the car and
\* the name and brand of the model, whose sales_date and sales_cost are
\* None when get(vin, Sale) returns None and else those of that sale
CarInfoIsJoin ==
    \A vin \in Vins :
        With2(GetCarInfo(fs, vin), Get(fs, vin, "Car").ret, LAMBDA out, car :
            /\ out.err = "none"
            /\ out.fs = fs
            /\ IF car = NoneValue THEN out.ret = NoneValue
               ELSE With2(Get(fs, IntToStr(car.model), "Model").ret,
                          Get(fs, vin, "Sale").ret, LAMBDA model, sale :
                   IF model = NoneValue THEN out.ret = NoneValue
                   ELSE /\ out.ret # NoneValue
                        /\ out.ret.vin = car.vin
                        /\ out.ret.price = car.price
                        /\ out.ret.date_start = car.date_start
                        /\ out.ret.status = car.status
                        /\ out.ret.car_model_name = model.name
                        /\ out.ret.car_model_brand = model.brand
                        /\ sale = NoneValue =>
                              /\ out.ret.sales_date = NoneValue
                              /\ out.ret.sales_cost = NoneValue
                        /\ sale # NoneValue =>
                              /\ out.ret.sales_date = Some(sale.sales_date)
                              /\ out.ret.sales_cost = Some(sale.cost)))

\* C14 witness: get_car_info has returned in a state where it finds an
\* info for every vin, for one with a sale and for another without
CarInfoWithAndWithoutSale ==
    /\ last.op = "get_car_info"
    /\ last.err = "none"
    /\ \A vin \in Vins : GetCarInfo(fs, vin).ret # NoneValue
    /\ \E vin \in Vins : GetCarInfo(fs, vin).ret.sales_date # NoneValue
    /\ \E vin \in Vins : GetCarInfo(fs, vin).ret.sales_date = NoneValue

(***************************************************************************)
(* C15.  The models with the most sales.                                   *)
(***************************************************************************)

\* the models of the cars of the sales of the example, in scan order:
\* three sales of model 1, five of model 2, one of model 3, five of model 4
ExampleModels == << 1, 1, 1, 2, 2, 2, 2, 2, 3, 4, 4, 4, 4, 4 >>

\* the number of sales of the record file whose car, as get finds it, has
\* the model of the car of the sale of line i
SalesOfModelAt(f, sales, i) ==
    Cardinality({ j \in 1..Len(sales) :
        Get(f, sales[j].car_vin, "Car").ret.model =
            Get(f, sales[i].car_vin, "Car").ret.model })

\* C15: the example yields the models 2, 4 and 1 with the counts 5, 5 and
\* 3; and once sales are recorded top_models_by_sales returns at most three
\* entries, in non-increasing order of count, each with the name, the brand
\* and the number of sales of a model that has sales, and no model with
\* sales that is left out has more sales than one that is returned
TopModelsAreRanked ==
    /\ MostCommon(Counted(ExampleModels, << >>), 3) =
           << << 2, 5 >>, << 4, 5 >>, << 1, 3 >> >>
    /\ fs[ModelDbPath("Sale")].isfile =>
           With2(TopModelsBySales(fs), GetList(fs, "Sale"),
                 LAMBDA out, sales :
               /\ out.err = "none"
               /\ sales.err = "none"
               /\ Len(out.ret) <= 3
               /\ \A i \in 1..(Len(out.ret) - 1) :
                     out.ret[i].sales_number >= out.ret[i + 1].sales_number
               /\ \A i \in 1..Len(out.ret) :
                     \E j \in 1..Len(sales.ret) :
                         With(Get(fs,
                                  IntToStr(Get(fs, sales.ret[j].car_vin,
                                               "Car").ret.model),
                                  "Model").ret, LAMBDA model :
                             /\ out.ret[i].car_model_name = model.name
                             /\ out.ret[i].brand = model.brand
                             /\ out.ret[i].sales_number =
                                    SalesOfModelAt(fs, sales.ret, j))
               /\ \A j \in 1..Len(sales.ret) :
                     \E i \in 1..Len(out.ret) :
                         out.ret[i].sales_number >=
                             SalesOfModelAt(fs, sales.ret, j))

(***************************************************************************)
(* C16.  Lines of LINE_SIZE bytes.                                         *)
(***************************************************************************)

\* the ends of n lines of LINE_SIZE bytes each: line i fills the bytes
\* from (i - 1) * LINE_SIZE up to i * LINE_SIZE
SlotEnds(n) == [i \in 1..n |-> i * LINE_SIZE]

\* C16: the lines of the record file fill one slot of LINE_SIZE bytes each;
\* the append of one more line returns the number of the slot it fills and
\* leaves the lines so, and so does the overwrite of any line
LinesFillSlots ==
    With(fs[ModelDbPath(store)].data, LAMBDA old :
        /\ Ends(old) = SlotEnds(Len(old))
        /\ \A e \in Instances(store) :
              /\ With(AppendFile(fs, GetPreparedData(ToStr(e)),
                                 ModelDbPath(store)), LAMBDA appended :
                     /\ appended = Return(appended.fs, Len(old) + 1)
                     /\ Ends(appended.fs[ModelDbPath(store)].data) =
                            SlotEnds(Len(old) + 1))
              /\ \A n \in 1..Len(old) :
                     With(OverwriteLine(fs, ModelDbPath(store), n, e),
                          LAMBDA written :
                         /\ written.err = "none"
                         /\ Ends(written.fs[ModelDbPath(store)].data) =
                                SlotEnds(Len(old))))

(***************************************************************************)
(* C17.  The codec of the entities.                                        *)
(***************************************************************************)

\* C17: from_str gives back every entity of the store from the text that
\* __str__ makes of it, the soft-deleted entities included
CodecRoundTrips ==
    \A e \in Instances(store) : FromStr(store, ToStr(e)) = Parsed(e)

(***************************************************************************)
(* C18.  What update writes.                                               *)
(***************************************************************************)

\* C18: for a key k the index binds to line n, an update(k, parts) that
\* returns leaves every line of the record file but line n as it was; it
\* leaves the index file as it was when the key of the updated record is
\* k, and otherwise the index binds the new key to n, holds k no more, and
\* binds every other key to the line it was bound to
UpdateWritesOneSlot ==
    \A k \in Keys(store) : \A parts \in UpdatedParts(store) :
        With2(GetNumLine(fs, k, store),
              Update(fs, [index |-> k], parts, store), LAMBDA n, updated :
            (n.err = "none" /\ updated.err = "none") =>
                /\ Len(RecordLines(updated.fs, store)) =
                       Len(RecordLines(fs, store))
                /\ \A i \in 1..Len(RecordLines(fs, store)) :
                       i # n.ret => RecordLines(updated.fs, store)[i] =
                                        RecordLines(fs, store)[i]
                /\ IF IndexOf(updated.ret) = k
                   THEN updated.fs[IndexDbPath(store)] =
                            fs[IndexDbPath(store)]
                   ELSE LoadedIndex(updated.fs, store) =
                            { kv \in LoadedIndex(fs, store) : kv[1] # k }
                                \cup { << IndexOf(updated.ret), n.ret >> })

(***************************************************************************)
(* C19.  The index file after a save.                                      *)
(***************************************************************************)

\* the index file as save(e) leaves it before refresh sorts it: the line
\* of e appended to the record file, its entry appended to the index file
Unsorted(f, e) ==
    With(AppendFile(f, GetPreparedData(ToStr(e)), ModelDbPath(e.cls)),
         LAMBDA id :
        AppendFile(id.fs,
            GetPreparedData(Cat(Cat(IndexOf(e), Comma), IntToStr(id.ret))),
            IndexDbPath(e.cls)).fs)

\* how many of the lines are the line x
Copies(lines, x) == Cardinality({ i \in 1..Len(lines) : lines[i] = x })

\* C19: when save(e) returns, the keys of the lines of the index file do
\* not decrease from one line to the next, the lines are those the index
\* file held before the sort, each as many times, and the mapping loaded
\* from the index file is the one loaded before the sort
SaveSortsIndex ==
    \A e \in Instances(store) :
        With2(Save(fs, e), Unsorted(fs, e), LAMBDA saved, before :
            saved.err = "none" =>
                With2(FileLines(saved.fs, IndexDbPath(store)),
                      FileLines(before, IndexDbPath(store)),
                      LAMBDA lines, appended :
                    /\ \A i \in 1..(Len(lines) - 1) :
                           ~StrLess(SortKey(lines[i + 1]), SortKey(lines[i]))
                    /\ Len(lines) = Len(appended)
                    /\ \A i \in 1..Len(lines) :
                           Copies(lines, lines[i]) =
                               Copies(appended, lines[i])
                    /\ LoadedIndex(saved.fs, store) =
                           LoadedIndex(before, store)))

\* a save has returned that appended the entry of a key to the index file
\* after the entry of a greater key: the lesser key, of line 2 of the record
\* file, is on the first line of the index file
SavedOutOfOrder ==
    /\ last = [op |-> "save", err |-> "none"]
    /\ With2(FileLines(fs, IndexDbPath(store)), LoadedIndex(fs, store),
             LAMBDA lines, index :
           /\ Len(lines) = 2
           /\ StrLess(SortKey(lines[1]), SortKey(lines[2]))
           /\ << SortKey(lines[1]), 2 >> \in index
           /\ << SortKey(lines[2]), 1 >> \in index)

(***************************************************************************)
(* C20.  Two saves of one key.                                             *)
(***************************************************************************)

\* C20: after whatever calls came before, save(e1) and then save(e2) of an
\* entity e2 with the key k of e1 and another value both return; then
\* get(k) returns e2, get_list returns the records it returned before and
\* then e1 and e2, and update(k, parts) returns, writes the line of e2 and
\* leaves the line of e1 as it was
LastSavedWins ==
    \A e2 \in Fresh(store) :
        With2(ModelCopy(e2, Retouch(store)), IndexOf(e2), LAMBDA e1, k :
        With(Save(fs, e1), LAMBDA first :
        With(Save(first.fs, e2), LAMBDA second :
            /\ first.err = "none"
            /\ second.err = "none"
            /\ Get(second.fs, k, store) = Return(second.fs, e2)
            /\ With2(GetList(fs, store), GetList(second.fs, store),
                     LAMBDA listed, both :
                   /\ both.err = "none"
                   /\ both.ret = (IF listed.err = "none" THEN listed.ret
                                  ELSE << >>) \o << e1, e2 >>)
            /\ With2(Update(second.fs, [index |-> k], Retouch(store), store),
                     Len(RecordLines(second.fs, store)), LAMBDA updated, n :
                   /\ updated.err = "none"
                   /\ Len(RecordLines(updated.fs, store)) = n
                   /\ RecordLines(updated.fs, store)[n] #
                          RecordLines(second.fs, store)[n]
                   /\ \A i \in 1..(n - 1) :
                          RecordLines(updated.fs, store)[i] =
                              RecordLines(second.fs, store)[i]))))

(***************************************************************************)
(* C21.  sell_car of a car that is not indexed.                            *)
(***************************************************************************)

\* C21: for a sale of a car whose vin the index of the cars does not hold,
\* sell_car raises, leaves the record file and the index file of the cars
\* as they were, has appended the sale to the record file of the sales and
\* bound its car_vin to that line in the index of the sales, and
\* get(car_vin, Sale) then returns the sale
SaleIsStoredBeforeLookup ==
    \A sale \in ServiceSales :
        sale.car_vin \notin { kv[1] : kv \in LoadedIndex(fs, "Car") } =>
            With2(SellCar(fs, sale), Len(RecordLines(fs, "Sale")) + 1,
                  LAMBDA sold, n :
                /\ sold.err # "none"
                /\ sold.fs[ModelDbPath("Car")] = fs[ModelDbPath("Car")]
                /\ sold.fs[IndexDbPath("Car")] = fs[IndexDbPath("Car")]
                /\ SubSeq(RecordLines(sold.fs, "Sale"), 1, n - 1) =
                       RecordLines(fs, "Sale")
                /\ Len(RecordLines(sold.fs, "Sale")) = n
                /\ FromStr("Sale", Strip(RecordLines(sold.fs, "Sale")[n])) =
                       Parsed(sale)
                /\ << sale.car_vin, n >> \in LoadedIndex(sold.fs, "Sale")
                /\ Get(sold.fs, sale.car_vin, "Sale") =
                       Return(sold.fs, sale))
====
